---- MODULE Spec2Model ----
(***************************************************************************)
(* The two FastAPI services of the repository:                             *)
(*   - twitter-api-fastapi/main.py: users and tweets kept in users.json    *)
(*     and tweets.json, each handler a read / append / write-back cycle;   *)
(*   - main.py: the tutorial service with the Person endpoints.            *)
(*                                                                         *)
(* A store file is [items, extra]: the JSON array written by the last      *)
(* json.dump at offset 0, and the number of characters of older text that  *)
(* this dump did not reach (the handlers never truncate).  json.load       *)
(* succeeds exactly when extra = 0.                                        *)
(*                                                                         *)
(* Values.  A JSON string of a request body is [str |-> s], a JSON integer *)
(* [int |-> i], a JSON boolean [bool |-> b]; an absent (or null) field is  *)
(* Absent.  Python objects: None, [uuid |-> s], [date |-> s],              *)
(* [datetime |-> s]; a Python str is a TLA+ string.  In a stored record    *)
(* and in a response body a JSON string is a TLA+ string.                  *)
(***************************************************************************)
EXTENDS Integers, Sequences, FiniteSets, TLC

VARIABLES usersFile, tweetsFile, pc, local, persons, last

vars == <<usersFile, tweetsFile, pc, local, persons, last>>

(***************************************************************************)
(* Bounds of the model.                                                    *)
(***************************************************************************)
MaxCreates == 2

(***************************************************************************)
(* Field constraints of the schemas.                                       *)
(***************************************************************************)
MinNameLen == 1
MaxNameLen == 50
MinPasswordLen == 8
MinContentLen == 1
MaxContentLen == 256
MaxAge == 120
MaxUsernameLen == 20

Workers == {1, 2}

None == [none |-> TRUE]
Absent == [absent |-> TRUE]

IsStr(v) == "str" \in DOMAIN v
IsInt(v) == "int" \in DOMAIN v
IsBool(v) == "bool" \in DOMAIN v

S(s) == [str |-> s]

RECURSIVE Rep(_)
Rep(n) ==
  IF n = 0 THEN ""
  ELSE IF n % 2 = 0 THEN LET h == Rep(n \div 2) IN h \o h
  ELSE "x" \o Rep(n - 1)

(***************************************************************************)
(* uuid.UUID(text): several texts name one UUID; str() gives the canonical *)
(* hyphenated text.                                                        *)
(***************************************************************************)
UUIDForms ==
  { <<"00000000-0000-0000-0000-000000000001", "00000000-0000-0000-0000-000000000001">>,
    <<"00000000-0000-0000-0000-000000000002", "00000000-0000-0000-0000-000000000002">>,
    <<"00000000000000000000000000000002", "00000000-0000-0000-0000-000000000002">>,
    <<"00000000-0000-0000-0000-0000000000a1", "00000000-0000-0000-0000-0000000000a1">>,
    <<"00000000-0000-0000-0000-0000000000a2", "00000000-0000-0000-0000-0000000000a2">> }

IsUUID(s) == \E f \in UUIDForms : f[1] = s
ParseUUID(s) == [uuid |-> (CHOOSE f \in UUIDForms : f[1] = s)[2]]

IsEmail(s) == s \in {"al@b.co", "bo@b.co"}

IsDate(s) == s \in {"2000-01-01"}
ParseDate(s) == [date |-> s]

(***************************************************************************)
(* datetime: pydantic reads the ISO text with "T" or with a space;         *)
(* str(datetime) writes it with a space, the response encoder with "T".    *)
(***************************************************************************)
DatetimeForms ==
  { <<"2022-01-01T10:00:00", "2022-01-01 10:00:00">>,
    <<"2022-01-01 10:00:00", "2022-01-01 10:00:00">>,
    <<"2022-01-02T11:30:00", "2022-01-02 11:30:00">>,
    <<"2022-01-02 11:30:00", "2022-01-02 11:30:00">>,
    <<"2021-12-31T09:00:00", "2021-12-31 09:00:00">>,
    <<"2021-12-31 09:00:00", "2021-12-31 09:00:00">> }

IsDatetime(s) == \E f \in DatetimeForms : f[1] = s
ParseDatetime(s) == [datetime |-> (CHOOSE f \in DatetimeForms : f[1] = s)[2]]
IsoFormat(d) == (CHOOSE f \in DatetimeForms : f[2] = d.datetime /\ f[1] # f[2])[1]

\* Field(default=datetime.now()): evaluated once, when the class is defined.
SchemaLoadTime == [datetime |-> "2021-12-31 09:00:00"]

\* Python's str() on the values the handlers pass to it.
Str(x) ==
  IF x = None THEN "None"
  ELSE IF "uuid" \in DOMAIN x THEN x.uuid
  ELSE IF "date" \in DOMAIN x THEN x.date
  ELSE x.datetime

\* JSON null in a response: a value that is none of the model's strings.
Null == "null"

\* The response encoder on the same values: None stays null, a datetime is
\* written in ISO format.
Encode(x) ==
  IF x = None THEN Null
  ELSE IF "datetime" \in DOMAIN x THEN IsoFormat(x)
  ELSE Str(x)

(***************************************************************************)
(* Schemas of twitter-api-fastapi/main.py                                  *)
(***************************************************************************)
NameOk(v) == IsStr(v) /\ Len(v.str) >= MinNameLen /\ Len(v.str) <= MaxNameLen

ValidUserBase(r) ==
  /\ IsStr(r.user_id) /\ IsUUID(r.user_id.str)
  /\ IsStr(r.email) /\ IsEmail(r.email.str)

ValidUser(r) ==
  /\ ValidUserBase(r)
  /\ NameOk(r.first_name)
  /\ NameOk(r.last_name)
  /\ (r.birth_date = Absent \/ (IsStr(r.birth_date) /\ IsDate(r.birth_date.str)))

UserRegisterNoPasswordCheck(r) == ValidUser(r) /\ IsStr(r.password)

ValidUserRegister(r) ==
  /\ ValidUser(r)
  /\ IsStr(r.password) /\ Len(r.password.str) >= MinPasswordLen

ContentOk(v) ==
  IsStr(v) /\ Len(v.str) >= MinContentLen /\ Len(v.str) <= MaxContentLen

ValidTweet(r) ==
  /\ IsStr(r.tweet_id) /\ IsUUID(r.tweet_id.str)
  /\ ContentOk(r.content)
  /\ (r.created_at = Absent \/ (IsStr(r.created_at) /\ IsDatetime(r.created_at.str)))
  /\ (r.updated_at = Absent \/ (IsStr(r.updated_at) /\ IsDatetime(r.updated_at.str)))
  /\ r.by # Absent /\ ValidUser(r.by)

\* The model objects pydantic builds from a valid body.
ParseUser(r) ==
  [user_id |-> ParseUUID(r.user_id.str),
   email |-> r.email.str,
   first_name |-> r.first_name.str,
   last_name |-> r.last_name.str,
   birth_date |-> IF r.birth_date = Absent THEN None ELSE ParseDate(r.birth_date.str)]

ParseUserRegister(r) ==
  [user_id |-> ParseUUID(r.user_id.str),
   email |-> r.email.str,
   first_name |-> r.first_name.str,
   last_name |-> r.last_name.str,
   birth_date |-> IF r.birth_date = Absent THEN None ELSE ParseDate(r.birth_date.str),
   password |-> r.password.str]

ParseTweet(r) ==
  [tweet_id |-> ParseUUID(r.tweet_id.str),
   content |-> r.content.str,
   created_at |-> IF r.created_at = Absent THEN SchemaLoadTime
                  ELSE ParseDatetime(r.created_at.str),
   updated_at |-> IF r.updated_at = Absent THEN None
                  ELSE ParseDatetime(r.updated_at.str),
   by |-> ParseUser(r.by)]

(***************************************************************************)
(* What the handlers store: user.dict() / tweet.dict() with the            *)
(* identifiers, dates and timestamps replaced by their str().              *)
(***************************************************************************)
SignupDict(user) ==
  [user EXCEPT !.user_id = Str(@), !.birth_date = Str(@)]

PostDict(tweet) ==
  [tweet EXCEPT !.tweet_id = Str(@),
                !.created_at = Str(@),
                !.updated_at = Str(@),
                !.by = [@ EXCEPT !.user_id = Str(@), !.birth_date = Str(@)]]

ListPrepend(results, d) == <<d>> \o results

\* results.append(d)
ListAppend(results, d) == Append(results, d)

(***************************************************************************)
(* Length of the text json.dump writes (separators ", " and ": ").         *)
(***************************************************************************)
KeyVal(k, v) == (Len(k) + 2) + 2 + (Len(v) + 2)

UserFieldsLen(d) ==
  KeyVal("user_id", d.user_id) + 2 + KeyVal("email", d.email) + 2
  + KeyVal("first_name", d.first_name) + 2 + KeyVal("last_name", d.last_name) + 2
  + KeyVal("birth_date", d.birth_date)

UserDictLen(d) == 2 + UserFieldsLen(d) + 2 + KeyVal("password", d.password)

TweetDictLen(d) ==
  2 + KeyVal("tweet_id", d.tweet_id) + 2 + KeyVal("content", d.content) + 2
  + KeyVal("created_at", d.created_at) + 2 + KeyVal("updated_at", d.updated_at) + 2
  + (Len("by") + 2) + 2 + (2 + UserFieldsLen(d.by))

RECURSIVE UsersBodyLen(_)
UsersBodyLen(items) ==
  IF items = <<>> THEN 0
  ELSE UserDictLen(Head(items)) + (IF Len(items) > 1 THEN 2 ELSE 0)
       + UsersBodyLen(Tail(items))

RECURSIVE TweetsBodyLen(_)
TweetsBodyLen(items) ==
  IF items = <<>> THEN 0
  ELSE TweetDictLen(Head(items)) + (IF Len(items) > 1 THEN 2 ELSE 0)
       + TweetsBodyLen(Tail(items))

UsersJsonLen(items) == 2 + UsersBodyLen(items)
TweetsJsonLen(items) == 2 + TweetsBodyLen(items)

(***************************************************************************)
(* The store files.                                                        *)
(***************************************************************************)
\* json.load(f): the file parses only when nothing follows the array.
Parses(f) == f.extra = 0

\* f.seek(0); json.dump(results, f); close: the new text replaces the first
\* newLen characters, whatever lay beyond them stays.
WriteAtStart(oldLen, results, newLen) ==
  [items |-> results,
   extra |-> IF oldLen > newLen THEN oldLen - newLen ELSE 0]

EmptyFile == [items |-> <<>>, extra |-> 0]

(***************************************************************************)
(* Responses.  response_model validates what the handler returned against  *)
(* the declared schema, keeps the schema's fields and encodes them.        *)
(***************************************************************************)
\* The most recent response a service sent, with the request it answers.
Resp(app, ep, status, req, body) ==
  [app |-> app, ep |-> ep, status |-> status, req |-> req, body |-> body]

ValidationError == [detail |-> "validation error"]
ServerError == [detail |-> "Internal Server Error"]

UserOut(u) ==
  [user_id |-> Encode(u.user_id),
   email |-> u.email,
   first_name |-> u.first_name,
   last_name |-> u.last_name,
   birth_date |-> Encode(u.birth_date)]

TweetOut(t) ==
  [tweet_id |-> Encode(t.tweet_id),
   content |-> t.content,
   created_at |-> Encode(t.created_at),
   updated_at |-> Encode(t.updated_at),
   by |-> UserOut(t.by)]

\* A stored record as the response validation sees it.
RawUser(d) ==
  [user_id |-> [str |-> d.user_id],
   email |-> [str |-> d.email],
   first_name |-> [str |-> d.first_name],
   last_name |-> [str |-> d.last_name],
   birth_date |-> [str |-> d.birth_date]]

RawTweet(d) ==
  [tweet_id |-> [str |-> d.tweet_id],
   content |-> [str |-> d.content],
   created_at |-> [str |-> d.created_at],
   updated_at |-> [str |-> d.updated_at],
   by |-> RawUser(d.by)]

ListUsersVerbatim(items) == [status |-> 200, body |-> [items |-> items]]

\* response_model=List[User] on the array show_all_users returns.
ListUsersResponse(items) ==
  IF \A i \in 1..Len(items) : ValidUser(RawUser(items[i]))
  THEN [status |-> 200,
        body |-> [items |-> [i \in 1..Len(items) |-> UserOut(ParseUser(RawUser(items[i])))]]]
  ELSE [status |-> 500, body |-> ServerError]

\* response_model=List[Tweet] on the array home returns.
ListTweetsResponse(items) ==
  IF \A i \in 1..Len(items) : ValidTweet(RawTweet(items[i]))
  THEN [status |-> 200,
        body |-> [items |-> [i \in 1..Len(items) |-> TweetOut(ParseTweet(RawTweet(items[i])))]]]
  ELSE [status |-> 500, body |-> ServerError]

(***************************************************************************)
(* Request bodies the clients of the tweets API send.                      *)
(***************************************************************************)
UserAl ==
  [user_id |-> S("00000000-0000-0000-0000-000000000001"), email |-> S("al@b.co"),
   first_name |-> S("Al"), last_name |-> S("Martin"),
   birth_date |-> S("2000-01-01"), password |-> S("password1")]

UserBo ==
  [user_id |-> S("00000000000000000000000000000002"), email |-> S("bo@b.co"),
   first_name |-> S("Bo"), last_name |-> S(Rep(50)),
   birth_date |-> Absent, password |-> S("12345678")]

SignupBodies ==
  { UserAl, UserBo,
    [UserAl EXCEPT !.email = Absent],
    [UserAl EXCEPT !.first_name = S("")],
    [UserAl EXCEPT !.last_name = S(Rep(51))],
    [UserAl EXCEPT !.password = S("1234567")],
    [UserAl EXCEPT !.user_id = S("not-a-uuid")],
    [UserAl EXCEPT !.email = S("not-an-email")] }

AuthorOf(u) ==
  [user_id |-> u.user_id, email |-> u.email, first_name |-> u.first_name,
   last_name |-> u.last_name, birth_date |-> u.birth_date]

TweetHi ==
  [tweet_id |-> S("00000000-0000-0000-0000-0000000000a1"), content |-> S("hi"),
   created_at |-> S("2022-01-01T10:00:00"), updated_at |-> S("2022-01-02T11:30:00"),
   by |-> AuthorOf(UserAl)]

TweetMax ==
  [tweet_id |-> S("00000000-0000-0000-0000-0000000000a2"), content |-> S(Rep(256)),
   created_at |-> Absent, updated_at |-> Absent,
   by |-> AuthorOf(UserBo)]

PostBodies ==
  { TweetHi, TweetMax,
    [TweetHi EXCEPT !.content = S("")],
    [TweetHi EXCEPT !.content = S(Rep(257))],
    [TweetHi EXCEPT !.by = Absent],
    [TweetHi EXCEPT !.tweet_id = S("not-a-uuid")],
    [TweetHi EXCEPT !.by = AuthorOf([UserAl EXCEPT !.email = S("not-an-email")])],
    [TweetHi EXCEPT !.by = AuthorOf([UserAl EXCEPT !.first_name = S("")])] }

StubEndpoints ==
  { "POST /login", "GET /users/{user_id}", "DELETE /users/{user_id}/delete",
    "PUT /users/{user_id}/update", "GET /tweets/{tweet_id}",
    "DELETE /tweets/{tweet_id}/delete", "PUT /tweets/{tweet_id}/update" }

NoLocal == [op |-> "none", body |-> None, results |-> <<>>]

Free(w) == pc[w] = "idle"

\* Creates admitted so far (stored or between load and dump).
Admitted ==
  Len(usersFile.items) + Len(tweetsFile.items)
  + Cardinality({w \in Workers : pc[w] = "loaded"})

(***************************************************************************)
(* twitter-api-fastapi/main.py: path operations.  The synchronous handlers *)
(* run on pool threads (Workers); a handler that rewrites a store is two   *)
(* steps, its json.load and its json.dump with the close that flushes it.  *)
(* The arrays stay far below the file buffer's size, so the text of one    *)
(* json.dump reaches the file in a single write, at close.                 *)
(***************************************************************************)
\* POST /signup with a body UserRegister rejects: answered before signup runs.
SignupReject(body) ==
  /\ ~ValidUserRegister(body)
  /\ last' = Resp("twitter", "POST /signup", 422, body, ValidationError)
  /\ UNCHANGED <<usersFile, tweetsFile, pc, local, persons>>

\* signup, to json.load(f)
SignupLoad(w, body) ==
  /\ Free(w)
  /\ ValidUserRegister(body)
  /\ IF Parses(usersFile)
     THEN /\ Admitted < MaxCreates
          /\ pc' = [pc EXCEPT ![w] = "loaded"]
          /\ local' = [local EXCEPT ![w] =
                         [op |-> "signup", body |-> body, results |-> usersFile.items]]
          /\ UNCHANGED last
     ELSE /\ UNCHANGED <<pc, local>>
          /\ last' = Resp("twitter", "POST /signup", 500, body, ServerError)
  /\ UNCHANGED <<usersFile, tweetsFile, persons>>

\* signup, from user.dict() to return user
SignupDump(w) ==
  /\ pc[w] = "loaded"
  /\ local[w].op = "signup"
  /\ LET user == ParseUserRegister(local[w].body)
         results == ListAppend(local[w].results, SignupDict(user))
     IN /\ usersFile' = WriteAtStart(UsersJsonLen(usersFile.items) + usersFile.extra,
                                     results, UsersJsonLen(results))
        /\ local' = [local EXCEPT ![w] = NoLocal]
        /\ last' = Resp("twitter", "POST /signup", 201, local[w].body, UserOut(user))
  /\ pc' = [pc EXCEPT ![w] = "idle"]
  /\ UNCHANGED <<tweetsFile, persons>>

\* GET /users
ShowAllUsers ==
  /\ LET r == IF Parses(usersFile) THEN ListUsersResponse(usersFile.items)
              ELSE [status |-> 500, body |-> ServerError]
     IN last' = Resp("twitter", "GET /users", r.status, None, r.body)
  /\ UNCHANGED <<usersFile, tweetsFile, pc, local, persons>>

\* POST /post with a body Tweet rejects
PostReject(body) ==
  /\ ~ValidTweet(body)
  /\ last' = Resp("twitter", "POST /post", 422, body, ValidationError)
  /\ UNCHANGED <<usersFile, tweetsFile, pc, local, persons>>

\* post, to json.load(f)
PostLoad(w, body) ==
  /\ Free(w)
  /\ ValidTweet(body)
  /\ IF Parses(tweetsFile)
     THEN /\ Admitted < MaxCreates
          /\ pc' = [pc EXCEPT ![w] = "loaded"]
          /\ local' = [local EXCEPT ![w] =
                         [op |-> "post", body |-> body, results |-> tweetsFile.items]]
          /\ UNCHANGED last
     ELSE /\ UNCHANGED <<pc, local>>
          /\ last' = Resp("twitter", "POST /post", 500, body, ServerError)
  /\ UNCHANGED <<usersFile, tweetsFile, persons>>

\* post, from tweet.dict() to return tweet
PostDump(w) ==
  /\ pc[w] = "loaded"
  /\ local[w].op = "post"
  /\ LET tweet == ParseTweet(local[w].body)
         results == ListAppend(local[w].results, PostDict(tweet))
     IN /\ tweetsFile' = WriteAtStart(TweetsJsonLen(tweetsFile.items) + tweetsFile.extra,
                                      results, TweetsJsonLen(results))
        /\ local' = [local EXCEPT ![w] = NoLocal]
        /\ last' = Resp("twitter", "POST /post", 201, local[w].body, TweetOut(tweet))
  /\ pc' = [pc EXCEPT ![w] = "idle"]
  /\ UNCHANGED <<usersFile, persons>>

\* GET /
Home ==
  /\ LET r == IF Parses(tweetsFile) THEN ListTweetsResponse(tweetsFile.items)
              ELSE [status |-> 500, body |-> ServerError]
     IN last' = Resp("twitter", "GET /", r.status, None, r.body)
  /\ UNCHANGED <<usersFile, tweetsFile, pc, local, persons>>

\* The handlers whose body is `pass` return None under a declared
\* response_model: the framework either sends null with the declared status
\* or fails the response validation, depending on its version.
StubOutcomes ==
  { [status |-> 200, body |-> [null |-> TRUE]],
    [status |-> 500, body |-> ServerError] }

Stub(ep) ==
  /\ \E r \in StubOutcomes :
        last' = Resp("twitter", ep, r.status, None, r.body)
  /\ UNCHANGED <<usersFile, tweetsFile, pc, local, persons>>

(***************************************************************************)
(* main.py: the tutorial service.                                          *)
(***************************************************************************)
HairColor == {"white", "brown", "black", "blonde", "red"}

Countries == {"México", "Colombia", "Perú", "Venezuela", "Chile", "Argentina"}

AgeNotNegative(a) == a >= 0 /\ a <= MaxAge

\* Person.age: gt=0, le=120
ValidAge(a) == a > 0 /\ a <= MaxAge

ValidPerson(r) ==
  /\ NameOk(r.first_name)
  /\ NameOk(r.last_name)
  /\ IsInt(r.age) /\ ValidAge(r.age.int)
  /\ (r.hair_color = Absent \/ (IsStr(r.hair_color) /\ r.hair_color.str \in HairColor))
  /\ (r.is_married = Absent \/ IsBool(r.is_married))
  /\ IsStr(r.password) /\ Len(r.password.str) >= MinPasswordLen

ValidLocation(r) ==
  /\ NameOk(r.city)
  /\ NameOk(r.state)
  /\ IsStr(r.country) /\ r.country.str \in Countries

\* person.dict(), encoded: every field of the model, the password among them.
PersonDict(r) ==
  [first_name |-> r.first_name.str,
   last_name |-> r.last_name.str,
   age |-> r.age.int,
   hair_color |-> IF r.hair_color = Absent THEN Null ELSE r.hair_color.str,
   is_married |-> IF r.is_married = Absent THEN Null
                  ELSE IF r.is_married.bool THEN "true" ELSE "false",
   password |-> r.password.str]

\* response_model=Person, response_model_exclude={"password"}
PersonOut(r) ==
  [f \in DOMAIN PersonDict(r) \ {"password"} |-> PersonDict(r)[f]]

LocationDict(r) ==
  [city |-> r.city.str, state |-> r.state.str, country |-> r.country.str]

PersonIdNotNegative(id) == id >= 0

\* Path(..., gt=0)
ValidPersonId(id) == id > 0

\* GET / of the tutorial
TutorialHome ==
  /\ last' = Resp("tutorial", "GET /", 200, None, [Hello |-> "World"])
  /\ UNCHANGED <<usersFile, tweetsFile, pc, local, persons>>

\* POST /person/new
CreatePerson(body) ==
  /\ last' = IF ValidPerson(body)
             THEN Resp("tutorial", "POST /person/new", 201, body, PersonOut(body))
             ELSE Resp("tutorial", "POST /person/new", 422, body, ValidationError)
  /\ UNCHANGED <<usersFile, tweetsFile, pc, local, persons>>

\* GET /person/detail?name=..&age=..
ShowPersonQuery(name, age) ==
  /\ LET req == [name |-> name, age |-> age]
     IN last' = IF (name = Absent \/ NameOk(name)) /\ IsInt(age)
                THEN Resp("tutorial", "GET /person/detail", 200, req,
                          [name |-> IF name = Absent THEN Null ELSE name.str,
                           age |-> age.int])
                ELSE Resp("tutorial", "GET /person/detail", 422, req, ValidationError)
  /\ UNCHANGED <<usersFile, tweetsFile, pc, local, persons>>

InPersons(id) == \E i \in 1..Len(persons) : persons[i] = id

\* GET /person/detail/{person_id}
ShowPersonPath(id) ==
  /\ LET req == [person_id |-> id]
     IN last' = IF ~ValidPersonId(id)
                THEN Resp("tutorial", "GET /person/detail/{person_id}", 422, req,
                          ValidationError)
                ELSE IF ~InPersons(id)
                THEN Resp("tutorial", "GET /person/detail/{person_id}", 404, req,
                          [detail |-> "This person doesn't exist!!!"])
                ELSE Resp("tutorial", "GET /person/detail/{person_id}", 200, req,
                          [person_id |-> id, text |-> "It exists!"])
  /\ UNCHANGED <<usersFile, tweetsFile, pc, local, persons>>

\* PUT /person/{person_id}
UpdatePerson(id, person, location) ==
  /\ LET req == [person_id |-> id, person |-> person, location |-> location]
     IN last' = IF ValidPersonId(id) /\ ValidPerson(person) /\ ValidLocation(location)
                THEN Resp("tutorial", "PUT /person/{person_id}", 200, req,
                          [id |-> id] @@ PersonDict(person) @@ LocationDict(location))
                ELSE Resp("tutorial", "PUT /person/{person_id}", 422, req,
                          ValidationError)
  /\ UNCHANGED <<usersFile, tweetsFile, pc, local, persons>>

\* POST /login of the tutorial: LoginOut(username=username) raises when the
\* username is longer than LoginOut allows.
Login(username, password) ==
  /\ LET req == [username |-> username, password |-> password]
     IN last' = IF ~(IsStr(username) /\ IsStr(password))
                THEN Resp("tutorial", "POST /login", 422, req, ValidationError)
                ELSE IF Len(username.str) > MaxUsernameLen
                THEN Resp("tutorial", "POST /login", 500, req, ServerError)
                ELSE Resp("tutorial", "POST /login", 200, req,
                          [username |-> username.str, message |-> "Login Successful"])
  /\ UNCHANGED <<usersFile, tweetsFile, pc, local, persons>>

(***************************************************************************)
(* Requests the clients of the tutorial send.                              *)
(***************************************************************************)
Ages == {-1, 0, 1, 120, 121}

PersonIds == {-1, 0, 1, 3, 5, 6}

PersonOfAge(a) ==
  [first_name |-> S("Alejandro"), last_name |-> S("Martinez"), age |-> [int |-> a],
   hair_color |-> S("black"), is_married |-> [bool |-> TRUE],
   password |-> S("HolaSoyAlejandro123")]

PersonBodies ==
  { PersonOfAge(a) : a \in Ages }
  \cup { [PersonOfAge(30) EXCEPT !.hair_color = Absent, !.is_married = Absent],
         [PersonOfAge(30) EXCEPT !.hair_color = S("green")],
         [PersonOfAge(30) EXCEPT !.password = S("1234567")],
         [PersonOfAge(30) EXCEPT !.first_name = Absent],
         [PersonOfAge(30) EXCEPT !.age = Absent] }

Merida == [city |-> S("Merida"), state |-> S("Yucatan"), country |-> S("México")]

LocationBodies == { Merida, [Merida EXCEPT !.country = S("France")] }

QueryNames == { Absent, S("Daniel"), S(""), S(Rep(51)) }

QueryAges == { [int |-> a] : a \in Ages } \cup { Absent }

Usernames == { S("alexini123"), S(Rep(21)), Absent }

(***************************************************************************)
(* The services after start-up: both store files hold a JSON array.        *)
(***************************************************************************)
Init ==
  /\ usersFile = EmptyFile
  /\ tweetsFile = EmptyFile
  /\ pc = [w \in Workers |-> "idle"]
  /\ local = [w \in Workers |-> NoLocal]
  /\ persons = <<1, 2, 3, 4, 5>>
  /\ last = [app |-> "none", ep |-> "none", status |-> 0,
             req |-> None, body |-> None]

Next ==
  \/ \E body \in SignupBodies : SignupReject(body)
  \/ \E w \in Workers, body \in SignupBodies : SignupLoad(w, body)
  \/ \E w \in Workers : SignupDump(w)
  \/ ShowAllUsers
  \/ \E body \in PostBodies : PostReject(body)
  \/ \E w \in Workers, body \in PostBodies : PostLoad(w, body)
  \/ \E w \in Workers : PostDump(w)
  \/ Home
  \/ \E ep \in StubEndpoints : Stub(ep)

Spec == Init /\ [][Next]_vars

TutorialNext ==
  \/ TutorialHome
  \/ \E body \in PersonBodies : CreatePerson(body)
  \/ \E name \in QueryNames, age \in QueryAges : ShowPersonQuery(name, age)
  \/ \E id \in PersonIds : ShowPersonPath(id)
  \/ \E id \in PersonIds, person \in PersonBodies, location \in LocationBodies :
        UpdatePerson(id, person, location)
  \/ \E username \in Usernames, password \in {S("secret-password")} :
        Login(username, password)

TutorialSpec == Init /\ [][TutorialNext]_vars

(***************************************************************************)
(* Properties of the tweets API (checked under Spec).                      *)
(***************************************************************************)
TwitterAnswer(ep) == last.app = "twitter" /\ last.ep = ep

\* The step is the write-back of worker w.
Dumps(w, op) == pc[w] = "loaded" /\ local[w].op = op /\ pc'[w] = "idle"

\* Stored record d is the record of the submitted user body b.
UserRecordFor(d, b) ==
  /\ DOMAIN d = {"user_id", "email", "first_name", "last_name", "birth_date", "password"}
  /\ IsUUID(d.user_id) /\ ParseUUID(d.user_id) = ParseUUID(b.user_id.str)
  /\ d.email = b.email.str
  /\ d.first_name = b.first_name.str
  /\ d.last_name = b.last_name.str
  /\ d.birth_date = (IF b.birth_date = Absent THEN "None" ELSE b.birth_date.str)
  /\ d.password = b.password.str

\* Stored record d is the record of the submitted tweet body b.
TweetRecordFor(d, b) ==
  /\ DOMAIN d = {"tweet_id", "content", "created_at", "updated_at", "by"}
  /\ IsUUID(d.tweet_id) /\ ParseUUID(d.tweet_id) = ParseUUID(b.tweet_id.str)
  /\ d.content = b.content.str
  /\ d.by.email = b.by.email.str
  /\ d.by.first_name = b.by.first_name.str
  /\ d.by.last_name = b.by.last_name.str
  /\ IsUUID(d.by.user_id) /\ ParseUUID(d.by.user_id) = ParseUUID(b.by.user_id.str)

\* new is old followed by exactly one record.
OneMore(old, new) ==
  /\ Len(new) = Len(old) + 1
  /\ \A i \in 1..Len(old) : new[i] = old[i]

\* C1: a signup (or post) that writes back to the store it read, nothing
\* having touched the store in between, leaves the store a JSON array that
\* is the earlier array, unchanged and in order, followed by the one record
\* of the submitted user (or tweet); the other store is untouched.
C1_SequentialCreateAppends ==
  [][\A w \in Workers :
       /\ (Dumps(w, "signup") /\ usersFile = [items |-> local[w].results, extra |-> 0])
            => /\ usersFile'.extra = 0
               /\ OneMore(usersFile.items, usersFile'.items)
               /\ UserRecordFor(usersFile'.items[Len(usersFile'.items)], local[w].body)
               /\ tweetsFile' = tweetsFile
       /\ (Dumps(w, "post") /\ tweetsFile = [items |-> local[w].results, extra |-> 0])
            => /\ tweetsFile'.extra = 0
               /\ OneMore(tweetsFile.items, tweetsFile'.items)
               /\ TweetRecordFor(tweetsFile'.items[Len(tweetsFile'.items)], local[w].body)
               /\ usersFile' = usersFile
    ]_vars

\* Two signups, one after the other, have both been stored, the first in
\* front of the second; nothing is in flight.
C1_Witness ==
  /\ \A w \in Workers : pc[w] = "idle"
  /\ usersFile.extra = 0 /\ Len(usersFile.items) = 2
  /\ UserRecordFor(usersFile.items[1], UserBo)
  /\ TwitterAnswer("POST /signup") /\ last.status = 201
  /\ UserRecordFor(usersFile.items[2], last.req)

\* C2: when a signup writes back after exactly one other signup has written
\* since it read the store (the two interleaved), the store is afterwards a
\* JSON array that list-all returns and that holds the record of at least
\* one of the two.
C2_AtLeastOnePersisted ==
  [][\A w \in Workers :
       (/\ Dumps(w, "signup")
        /\ usersFile.extra = 0
        /\ OneMore(local[w].results, usersFile.items))
       => LET other == usersFile.items[Len(usersFile.items)]
              listed == IF Parses(usersFile') THEN ListUsersResponse(usersFile'.items)
                        ELSE [status |-> 500, body |-> ServerError]
          IN /\ usersFile'.extra = 0
             /\ \E i \in 1..Len(usersFile'.items) :
                   \/ UserRecordFor(usersFile'.items[i], local[w].body)
                   \/ usersFile'.items[i] = other
             /\ listed.status = 200
    ]_vars

\* C3: a GET / that follows the 201 of a post answers 200 with an array
\* holding a record whose content, author email and author names are those
\* of the posted body.
C3_PostThenListRoundTrip ==
  [][(/\ TwitterAnswer("POST /post") /\ last.status = 201
      /\ last'.app = "twitter" /\ last'.ep = "GET /")
     => /\ last'.status = 200
        /\ \E i \in 1..Len(last'.body.items) :
              LET t == last'.body.items[i]
              IN /\ t.content = last.req.content.str
                 /\ t.by.email = last.req.by.email.str
                 /\ t.by.first_name = last.req.by.first_name.str
                 /\ t.by.last_name = last.req.by.last_name.str
    ]_vars

MalformedIds == {"not-a-uuid"}
MalformedEmails == {"not-an-email"}

Missing(b, fields) == \E f \in fields : b[f] = Absent

LenOutside(v, lo, hi) == IsStr(v) /\ (Len(v.str) < lo \/ Len(v.str) > hi)

InvalidUserFields(b) ==
  \/ Missing(b, {"user_id", "email", "first_name", "last_name"})
  \/ LenOutside(b.first_name, 1, 50)
  \/ LenOutside(b.last_name, 1, 50)
  \/ (IsStr(b.user_id) /\ b.user_id.str \in MalformedIds)
  \/ (IsStr(b.email) /\ b.email.str \in MalformedEmails)

InvalidSignupBody(b) ==
  \/ InvalidUserFields(b)
  \/ Missing(b, {"password"})
  \/ (IsStr(b.password) /\ Len(b.password.str) < 8)

InvalidPostBody(b) ==
  \/ Missing(b, {"tweet_id", "content", "by"})
  \/ LenOutside(b.content, 1, 256)
  \/ (IsStr(b.tweet_id) /\ b.tweet_id.str \in MalformedIds)
  \/ InvalidUserFields(b.by)

\* C4: a signup or post whose body breaks a constraint of its schema is
\* answered 422 in a step that changes neither store and starts no handler,
\* and no handler ever holds such a body.
C4_InvalidBodyRejected ==
  [][/\ (/\ last' # last /\ last'.app = "twitter"
         /\ \/ last'.ep = "POST /signup" /\ InvalidSignupBody(last'.req)
            \/ last'.ep = "POST /post" /\ InvalidPostBody(last'.req))
        => /\ last'.status = 422
           /\ usersFile' = usersFile /\ tweetsFile' = tweetsFile
           /\ pc' = pc /\ local' = local
     /\ \A w \in Workers :
          /\ (pc'[w] = "loaded" /\ local'[w].op = "signup")
               => ~InvalidSignupBody(local'[w].body)
          /\ (pc'[w] = "loaded" /\ local'[w].op = "post")
               => ~InvalidPostBody(local'[w].body)
    ]_vars

\* A signup with a seven-character password has been refused while the
\* users store held a record.
C4_Witness ==
  /\ TwitterAnswer("POST /signup") /\ last.status = 422
  /\ IsStr(last.req.password) /\ Len(last.req.password.str) = 7
  /\ usersFile.extra = 0 /\ Len(usersFile.items) = 1

\* C6: no two records of the users store share a user_id and no two records
\* of the tweets store share a tweet_id.
C6_UniqueIdentifiers ==
  /\ \A i, j \in 1..Len(usersFile.items) :
        i # j => usersFile.items[i].user_id # usersFile.items[j].user_id
  /\ \A i, j \in 1..Len(tweetsFile.items) :
        i # j => tweetsFile.items[i].tweet_id # tweetsFile.items[j].tweet_id

\* C8: every stub endpoint answers with a not-implemented response (501),
\* never a success and never a server error.
C8_StubsNotImplemented ==
  (last.app = "twitter" /\ last.ep \in StubEndpoints) => last.status = 501

\* The step is a list-all answering on endpoint ep.
ListStep(ep) == last'.app = "twitter" /\ last'.ep = ep /\ pc' = pc

\* Response item `item` shows stored user d: its schema fields, no password.
UserShown(item, d) ==
  /\ DOMAIN item = {"user_id", "email", "first_name", "last_name", "birth_date"}
  /\ item.user_id = d.user_id
  /\ item.email = d.email
  /\ item.first_name = d.first_name
  /\ item.last_name = d.last_name
  /\ item.birth_date = d.birth_date

\* Response item `item` shows stored tweet d, its timestamps re-encoded.
TweetShown(item, d) ==
  /\ DOMAIN item = {"tweet_id", "content", "created_at", "updated_at", "by"}
  /\ item.tweet_id = d.tweet_id
  /\ item.content = d.content
  /\ ParseDatetime(item.created_at) = ParseDatetime(d.created_at)
  /\ item.created_at # d.created_at
  /\ ParseDatetime(item.updated_at) = ParseDatetime(d.updated_at)
  /\ UserShown(item.by, d.by)

\* C7 as claimed: the answer of a list-all is 200 with the stored array
\* verbatim.  (Every write to a store answers a signup or a post, so while
\* the latest answer is a list-all the store is the one it read.)
C7_ListAllVerbatim ==
  /\ TwitterAnswer("GET /users")
       => (last.status = 200 /\ last.body.items = usersFile.items)
  /\ TwitterAnswer("GET /")
       => (last.status = 200 /\ last.body.items = tweetsFile.items)

\* C7 as amended: a list-all changes neither store; answering right after a
\* list-all of the same endpoint it gives the same answer; a 200 holds, in
\* stored order, the schema fields of each stored record (no password, the
\* timestamps in ISO form), and the answer is a 500 only when the file does
\* not parse or a stored date or timestamp is the text "None".
C7_ListAllReadOnly ==
  [][/\ ListStep("GET /users")
          => /\ usersFile' = usersFile /\ tweetsFile' = tweetsFile
             /\ TwitterAnswer("GET /users") => last' = last
             /\ IF last'.status = 200
                THEN /\ usersFile.extra = 0
                     /\ Len(last'.body.items) = Len(usersFile.items)
                     /\ \A i \in 1..Len(usersFile.items) :
                           UserShown(last'.body.items[i], usersFile.items[i])
                ELSE /\ last'.status = 500
                     /\ \/ usersFile.extra # 0
                        \/ \E i \in 1..Len(usersFile.items) :
                              usersFile.items[i].birth_date = "None"
     /\ ListStep("GET /")
          => /\ usersFile' = usersFile /\ tweetsFile' = tweetsFile
             /\ TwitterAnswer("GET /") => last' = last
             /\ IF last'.status = 200
                THEN /\ tweetsFile.extra = 0
                     /\ Len(last'.body.items) = Len(tweetsFile.items)
                     /\ \A i \in 1..Len(tweetsFile.items) :
                           TweetShown(last'.body.items[i], tweetsFile.items[i])
                ELSE /\ last'.status = 500
                     /\ \/ tweetsFile.extra # 0
                        \/ \E i \in 1..Len(tweetsFile.items) :
                              \/ tweetsFile.items[i].updated_at = "None"
                              \/ tweetsFile.items[i].by.birth_date = "None"
    ]_vars

\* GET /users has answered 200 with a user whose stored record holds a
\* password that the answer does not show.
C7_Witness ==
  /\ TwitterAnswer("GET /users") /\ last.status = 200
  /\ Len(last.body.items) >= 1
  /\ "password" \in DOMAIN usersFile.items[1]
  /\ "password" \notin DOMAIN last.body.items[1]

(***************************************************************************)
(* Properties of the tutorial service (checked under TutorialSpec).        *)
(***************************************************************************)
TutorialAnswer(ep) == last.app = "tutorial" /\ last.ep = ep

\* C5: no response body carries a password field, at top level or in an
\* item of a returned array.
C5_NoPasswordInResponse ==
  /\ "password" \notin DOMAIN last.body
  /\ "items" \in DOMAIN last.body
       => \A i \in 1..Len(last.body.items) : "password" \notin DOMAIN last.body.items[i]

\* C9 as claimed: the persons list is <<1,2,3,4,5>>; the detail-by-id
\* endpoint answers 200 "It exists!" for an id of the list and 404 for every
\* other integer.
C9_NotFoundOutsideSet ==
  /\ persons = <<1, 2, 3, 4, 5>>
  /\ TutorialAnswer("GET /person/detail/{person_id}")
       => IF last.req.person_id \in {1, 2, 3, 4, 5}
          THEN last.status = 200 /\ last.body.text = "It exists!"
          ELSE last.status = 404

\* C9 as amended: 404 for every positive id outside the list; zero and the
\* negative ids are refused with a validation error (422).
C9_NotFoundForPositiveIds ==
  /\ persons = <<1, 2, 3, 4, 5>>
  /\ TutorialAnswer("GET /person/detail/{person_id}")
       => IF last.req.person_id \in {1, 2, 3, 4, 5}
          THEN /\ last.status = 200
               /\ last.body.person_id = last.req.person_id
               /\ last.body.text = "It exists!"
          ELSE IF last.req.person_id > 0
          THEN last.status = 404
          ELSE last.status = 422

\* The detail-by-id endpoint has refused person_id 0.
C9_Witness ==
  /\ TutorialAnswer("GET /person/detail/{person_id}")
  /\ last.req.person_id = 0
  /\ last.status = 422

AgeOutside(a) == a <= 0 \/ a > 120

\* The person body is one of the valid ones, its age apart.
OtherwiseValidPerson(b) ==
  [b EXCEPT !.age = [int |-> 30]] \in
     { PersonOfAge(30),
       [PersonOfAge(30) EXCEPT !.hair_color = Absent, !.is_married = Absent] }

OtherwiseValidQuery(q) == q.name \in { Absent, S("Daniel") }

\* C10 as claimed: person creation and the person detail query both refuse
\* (422) every integer age outside (0, 120] and succeed for every age inside
\* it when the rest of the input is valid.
C10_AgeOutsideRangeRejected ==
  /\ (TutorialAnswer("POST /person/new") /\ IsInt(last.req.age))
       => /\ AgeOutside(last.req.age.int) => last.status = 422
          /\ (~AgeOutside(last.req.age.int) /\ OtherwiseValidPerson(last.req))
               => last.status = 201
  /\ (TutorialAnswer("GET /person/detail") /\ IsInt(last.req.age))
       => /\ AgeOutside(last.req.age.int) => last.status = 422
          /\ (~AgeOutside(last.req.age.int) /\ OtherwiseValidQuery(last.req))
               => last.status = 200

\* C10 as amended: person creation refuses every age outside (0, 120] and
\* succeeds inside it; the detail query accepts every integer age.
C10_AgeRangeOnCreateOnly ==
  /\ (TutorialAnswer("POST /person/new") /\ IsInt(last.req.age))
       => /\ AgeOutside(last.req.age.int) => last.status = 422
          /\ (~AgeOutside(last.req.age.int) /\ OtherwiseValidPerson(last.req))
               => (last.status = 201 /\ last.body.age = last.req.age.int)
  /\ (TutorialAnswer("GET /person/detail") /\ IsInt(last.req.age)
      /\ OtherwiseValidQuery(last.req))
       => (last.status = 200 /\ last.body.age = last.req.age.int)

\* The detail query has answered 200 for age 121.
C10_Witness ==
  /\ TutorialAnswer("GET /person/detail")
  /\ last.req.age = [int |-> 121]
  /\ last.status = 200

====
